---- MODULE Spec2Model ----
(***************************************************************************)
(* Order fulfilment workflow (workflows.py, activities.py).                *)
(*                                                                         *)
(* One run of OrderProcessingWorkflow.run per order.  A run awaits four    *)
(* activities in turn; every activity is executed under the RetryPolicy    *)
(* the workflow passes to workflow.execute_activity.  An activity attempt  *)
(* either returns a value or fails; a failure is either retried after a    *)
(* backoff wait or delivered to the workflow as an ActivityError.          *)
(*                                                                         *)
(* Strings are modelled as sequences of tokens, so that an f-string is the *)
(* concatenation of its literal parts and its formatted values.            *)
(* Durations are whole seconds.                                            *)
(***************************************************************************)
EXTENDS Integers, Sequences, FiniteSets, TLC

VARIABLES
    pc,        \* run -> position of OrderProcessingWorkflow.run
    act,       \* run -> step -> state of the activity execution
    attempts,  \* run -> step -> number of attempts started
    cause,     \* run -> step -> e.cause of the ActivityError of the step
    failures,  \* run -> step -> error kind of each failed attempt, in order
    delays,    \* run -> step -> the backoff waits computed so far
    payResult, \* run -> value returned by the successful process_payment attempt
    txn_id,    \* run -> the local variable txn_id of run
    sent,      \* run -> txn_id argument received by each send_confirmation attempt
    outcome,   \* run -> what the run gave its caller
    d_in,      \* retry decision under evaluation: its inputs
    d_out      \* retry decision under evaluation: its result

runvars == <<pc, act, attempts, cause, failures, delays, payResult, txn_id, sent, outcome>>
dvars == <<d_in, d_out>>
vars == <<pc, act, attempts, cause, failures, delays, payResult, txn_id, sent, outcome, d_in, d_out>>

----------------------------------------------------------------------------
(* Bounds and inputs *)

\* order_id of the orders submitted; one run per order
Orders == {"order_1"}

\* values random.randint(1000, 9999) is drawn from in the model
TxnSuffixes == {1000, 1234, 9999}

\* largest attempt number the retry decision is evaluated for
MaxAttemptNumber == 7

----------------------------------------------------------------------------
(* Steps, error kinds and retry policies *)

Steps == <<"validate_inventory", "process_payment", "update_inventory", "send_confirmation">>

StepSet == {Steps[i] : i \in 1..Len(Steps)}

StepIndex(s) == CHOOSE i \in 1..Len(Steps) : Steps[i] = s

\* steps awaited before / after step s in run
Before(s) == {Steps[i] : i \in 1..(StepIndex(s) - 1)}

After(s) == {Steps[i] : i \in (StepIndex(s) + 1)..Len(Steps)}

\* exception classes of activities.py, and the start_to_close timeout
ErrorKinds == {"InventoryUnavailableError", "PaymentDeclinedError", "EmailServiceError", "TimeoutError"}

\* what one attempt of an activity can fail with: the exception its body
\* raises, or the start_to_close_timeout set by the workflow
ActivityRaises(s) ==
    CASE s = "validate_inventory" -> {"InventoryUnavailableError", "TimeoutError"}
      [] s = "process_payment"    -> {"PaymentDeclinedError", "TimeoutError"}
      [] s = "update_inventory"   -> {"TimeoutError"}
      [] s = "send_confirmation"  -> {"EmailServiceError", "TimeoutError"}

\* backoff_coefficient is left at the RetryPolicy default
DefaultBackoffCoefficient == 2

RetryPolicy(initial, maximum, max_attempts, non_retryable) ==
    [initial_interval |-> initial,
     backoff_coefficient |-> DefaultBackoffCoefficient,
     maximum_interval |-> maximum,
     maximum_attempts |-> max_attempts,
     non_retryable_error_types |-> non_retryable]

\* Policy with EmailServiceError left retryable for send_confirmation
Policy_EmailRetryable(s) ==
    CASE s = "validate_inventory" -> RetryPolicy(1, 10, 3, {"InventoryUnavailableError"})
      [] s = "process_payment"    -> RetryPolicy(1, 5, 5, {"PaymentDeclinedError"})
      [] s = "update_inventory"   -> RetryPolicy(1, 10, 3, {})
      [] s = "send_confirmation"  -> RetryPolicy(1, 5, 2, {})

Policy(s) ==
    CASE s = "validate_inventory" -> RetryPolicy(1, 10, 3, {"InventoryUnavailableError"})
      [] s = "process_payment"    -> RetryPolicy(1, 5, 5, {"PaymentDeclinedError"})
      [] s = "update_inventory"   -> RetryPolicy(1, 10, 3, {})
      [] s = "send_confirmation"  -> RetryPolicy(1, 5, 2, {"EmailServiceError"})

RECURSIVE Pow(_, _)
Pow(b, e) == IF e = 0 THEN 1 ELSE b * Pow(b, e - 1)

Min(a, b) == IF a <= b THEN a ELSE b

\* Delay without the maximum_interval cap
Delay_Uncapped(attempt_number, policy) ==
    policy.initial_interval * Pow(policy.backoff_coefficient, attempt_number - 1)

\* wait before the attempt that follows attempt number attempt_number
Delay(attempt_number, policy) ==
    Min(policy.initial_interval * Pow(policy.backoff_coefficient, attempt_number - 1),
        policy.maximum_interval)

Stop == [decision |-> "Stop", delay |-> 0]

Retry(delay) == [decision |-> "Retry", delay |-> delay]

\* decide allowing one attempt more than maximum_attempts
decide_OffByOne(error_kind, attempt_number, policy) ==
    IF \/ error_kind \in policy.non_retryable_error_types
       \/ attempt_number > policy.maximum_attempts
    THEN Stop
    ELSE Retry(Delay(attempt_number, policy))

\* decide retrying the non-retryable error types too
decide_IgnoresNonRetryable(error_kind, attempt_number, policy) ==
    IF attempt_number >= policy.maximum_attempts
    THEN Stop
    ELSE Retry(Delay(attempt_number, policy))

\* retry decision taken when attempt attempt_number failed with error_kind
decide(error_kind, attempt_number, policy) ==
    IF \/ error_kind \in policy.non_retryable_error_types
       \/ attempt_number >= policy.maximum_attempts
    THEN Stop
    ELSE Retry(Delay(attempt_number, policy))

----------------------------------------------------------------------------
(* Values *)

None == <<>>

\* str(x) inside an f-string
Format(x) == IF x = None THEN <<"None">> ELSE x

\* TxnId built from the user id of the order instead of its order id
TxnId_FromUserId(order_id, n) == <<"txn_", "user-456", "_", ToString(n)>>

\* f"txn_{order.order_id}_{random.randint(1000, 9999)}"
TxnId(order_id, n) == <<"txn_", order_id, "_", ToString(n)>>

InventoryUnavailableString(order_id) ==
    <<"Order ", order_id, " failed: Inventory unavailable.">>

PaymentDeclinedString(order_id) ==
    <<"Order ", order_id, " failed: Payment declined.">>

InventoryUpdateFailedString(order_id) ==
    <<"Order ", order_id, " failed: Inventory update failed. Payment possibly refunded.">>

SuccessString(order_id, txn) ==
    <<"Order ", order_id, " completed successfully. Transaction: ">> \o Format(txn)

NoOutcome == [kind |-> "none", value |-> None]

Returned(str) == [kind |-> "returned", value |-> str]

Raised(error) == [kind |-> "raised", value |-> <<error>>]

\* An exception raised in an activity does not reach the workflow as an
\* object of its class: it is serialised into a failure and rebuilt on the
\* workflow side as an ApplicationError whose type is the name of the
\* class.  That name is what non_retryable_error_types is given
\* (InventoryUnavailableError.__name__, workflows.py:78) and what the client
\* reads back (ae.type, run_workflow.py:40); client and worker are built
\* with the default converter (run_worker.py:14-27), which rebuilds no
\* user-defined class.  A timeout is rebuilt as a TimeoutError.
NoCause == [class |-> "", type |-> ""]

FailureToCause(error_kind) ==
    IF error_kind = "TimeoutError"
    THEN [class |-> "TimeoutError", type |-> "TimeoutError"]
    ELSE [class |-> "ApplicationError", type |-> error_kind]

\* isinstance(e.cause, cls) for the exception classes of activities.py,
\* none of which is a base class of ApplicationError or TimeoutError
IsInstance(c, cls) == c.class = cls

----------------------------------------------------------------------------
(* Initial state *)

NoDecision == [decision |-> "none", delay |-> 0]

FirstInput == [error_kind |-> "TimeoutError", attempt_number |-> 1, step |-> "validate_inventory"]

RunInit ==
    /\ pc = [r \in Orders |-> "start"]
    /\ act = [r \in Orders |-> [s \in StepSet |-> "none"]]
    /\ attempts = [r \in Orders |-> [s \in StepSet |-> 0]]
    /\ cause = [r \in Orders |-> [s \in StepSet |-> NoCause]]
    /\ failures = [r \in Orders |-> [s \in StepSet |-> <<>>]]
    /\ delays = [r \in Orders |-> [s \in StepSet |-> <<>>]]
    /\ payResult = [r \in Orders |-> None]
    /\ txn_id = [r \in Orders |-> None]
    /\ sent = [r \in Orders |-> <<>>]
    /\ outcome = [r \in Orders |-> NoOutcome]

Init ==
    /\ RunInit
    /\ d_in = FirstInput
    /\ d_out = NoDecision

----------------------------------------------------------------------------
(* Activity executions *)

\* workflow.execute_activity(s, ...): the run waits at step s and the
\* first attempt of the activity is started
ExecuteActivity(r, s) ==
    /\ pc' = [pc EXCEPT ![r] = s]
    /\ act' = [act EXCEPT ![r][s] = "running"]
    /\ attempts' = [attempts EXCEPT ![r][s] = 1]

\* ActivityReturn keeping the last transaction id in one place shared by all runs
ActivityReturn_SharedTxn(r, s) ==
    /\ act[r][s] = "running"
    /\ act' = [act EXCEPT ![r][s] = "completed"]
    /\ IF s = "process_payment"
       THEN \E n \in TxnSuffixes : payResult' = [q \in DOMAIN payResult |-> TxnId(r, n)]
       ELSE UNCHANGED payResult
    /\ UNCHANGED <<pc, attempts, cause, failures, delays, txn_id, sent, outcome, d_in, d_out>>

\* ActivityReturn not recording that process_payment has completed
ActivityReturn_PaymentStillOpen(r, s) ==
    /\ act[r][s] = "running"
    /\ IF s = "process_payment"
       THEN /\ \E n \in TxnSuffixes : payResult' = [payResult EXCEPT ![r] = TxnId(r, n)]
            /\ UNCHANGED act
       ELSE /\ act' = [act EXCEPT ![r][s] = "completed"]
            /\ UNCHANGED payResult
    /\ UNCHANGED <<pc, attempts, cause, failures, delays, txn_id, sent, outcome, d_in, d_out>>

\* an attempt of activity s returns; process_payment returns a transaction id
ActivityReturn(r, s) ==
    /\ act[r][s] = "running"
    /\ act' = [act EXCEPT ![r][s] = "completed"]
    /\ IF s = "process_payment"
       THEN \E n \in TxnSuffixes : payResult' = [payResult EXCEPT ![r] = TxnId(r, n)]
       ELSE UNCHANGED payResult
    /\ UNCHANGED <<pc, attempts, cause, failures, delays, txn_id, sent, outcome, d_in, d_out>>

\* an attempt of activity s fails with error_kind: the retry policy either
\* schedules the next attempt after a wait or ends the execution, which
\* raises ActivityError at the await in run
ActivityFail(r, s, error_kind) ==
    /\ act[r][s] = "running"
    /\ error_kind \in ActivityRaises(s)
    /\ failures' = [failures EXCEPT ![r][s] = Append(@, error_kind)]
    /\ LET d == decide(error_kind, attempts[r][s], Policy(s)) IN
       IF d.decision = "Stop"
       THEN /\ act' = [act EXCEPT ![r][s] = "failed"]
            /\ cause' = [cause EXCEPT ![r][s] = FailureToCause(error_kind)]
            /\ UNCHANGED delays
       ELSE /\ act' = [act EXCEPT ![r][s] = "backoff"]
            /\ delays' = [delays EXCEPT ![r][s] = Append(@, d.delay)]
            /\ UNCHANGED cause
    /\ UNCHANGED <<pc, attempts, payResult, txn_id, sent, outcome, d_in, d_out>>

\* the backoff wait is over: the next attempt starts, with the arguments the
\* activity was scheduled with
RetryActivity(r, s) ==
    /\ act[r][s] = "backoff"
    /\ act' = [act EXCEPT ![r][s] = "running"]
    /\ attempts' = [attempts EXCEPT ![r][s] = @ + 1]
    /\ IF s = "send_confirmation"
       THEN sent' = [sent EXCEPT ![r] = Append(@, @[1])]
       ELSE UNCHANGED sent
    /\ UNCHANGED <<pc, cause, failures, delays, payResult, txn_id, outcome, d_in, d_out>>

----------------------------------------------------------------------------
(* OrderProcessingWorkflow.run *)

Return(r, str) ==
    /\ pc' = [pc EXCEPT ![r] = "done"]
    /\ outcome' = [outcome EXCEPT ![r] = Returned(str)]

\* a bare raise in an except ActivityError block
Reraise(r) ==
    /\ pc' = [pc EXCEPT ![r] = "done"]
    /\ outcome' = [outcome EXCEPT ![r] = Raised("ActivityError")]

\* txn_id = None, then the first await
WorkflowStart(r) ==
    /\ pc[r] = "start"
    /\ txn_id' = [txn_id EXCEPT ![r] = None]
    /\ ExecuteActivity(r, "validate_inventory")
    /\ UNCHANGED <<cause, failures, delays, payResult, sent, outcome, d_in, d_out>>

\* 1. validate_inventory returned: go on to process_payment
ValidateInventoryDone(r) ==
    /\ pc[r] = "validate_inventory"
    /\ act[r]["validate_inventory"] = "completed"
    /\ ExecuteActivity(r, "process_payment")
    /\ UNCHANGED <<cause, failures, delays, payResult, txn_id, sent, outcome, d_in, d_out>>

\* ValidateInventoryError converting every failure to the business string
ValidateInventoryError_ReturnsAlways(r) ==
    /\ pc[r] = "validate_inventory"
    /\ act[r]["validate_inventory"] = "failed"
    /\ Return(r, InventoryUnavailableString(r))
    /\ UNCHANGED <<act, attempts, cause, failures, delays, payResult, txn_id, sent, d_in, d_out>>

\* 1. except ActivityError as e
ValidateInventoryError(r) ==
    /\ pc[r] = "validate_inventory"
    /\ act[r]["validate_inventory"] = "failed"
    /\ IF IsInstance(cause[r]["validate_inventory"], "InventoryUnavailableError")
       THEN Return(r, InventoryUnavailableString(r))
       ELSE Reraise(r)
    /\ UNCHANGED <<act, attempts, cause, failures, delays, payResult, txn_id, sent, d_in, d_out>>

\* ProcessPaymentDone discarding the value of the await
ProcessPaymentDone_DropsTxn(r) ==
    /\ pc[r] = "process_payment"
    /\ act[r]["process_payment"] = "completed"
    /\ ExecuteActivity(r, "update_inventory")
    /\ UNCHANGED <<cause, failures, delays, payResult, txn_id, sent, outcome, d_in, d_out>>

\* 2. txn_id = await ...process_payment: go on to update_inventory
ProcessPaymentDone(r) ==
    /\ pc[r] = "process_payment"
    /\ act[r]["process_payment"] = "completed"
    /\ txn_id' = [txn_id EXCEPT ![r] = payResult[r]]
    /\ ExecuteActivity(r, "update_inventory")
    /\ UNCHANGED <<cause, failures, delays, payResult, sent, outcome, d_in, d_out>>

\* ProcessPaymentError going on to update_inventory without a payment
ProcessPaymentError_Continues(r) ==
    /\ pc[r] = "process_payment"
    /\ act[r]["process_payment"] = "failed"
    /\ ExecuteActivity(r, "update_inventory")
    /\ UNCHANGED <<cause, failures, delays, payResult, txn_id, sent, outcome, d_in, d_out>>

\* 2. except ActivityError as e
ProcessPaymentError(r) ==
    /\ pc[r] = "process_payment"
    /\ act[r]["process_payment"] = "failed"
    /\ IF IsInstance(cause[r]["process_payment"], "PaymentDeclinedError")
       THEN Return(r, PaymentDeclinedString(r))
       ELSE Reraise(r)
    /\ UNCHANGED <<act, attempts, cause, failures, delays, payResult, txn_id, sent, d_in, d_out>>

\* UpdateInventoryDone never resuming the run after the await
UpdateInventoryDone_NeverResumes(r) ==
    /\ pc[r] = "update_inventory"
    /\ act[r]["update_inventory"] = "completed"
    /\ UNCHANGED vars

\* 3. update_inventory returned: go on to send_confirmation(order, txn_id)
UpdateInventoryDone(r) ==
    /\ pc[r] = "update_inventory"
    /\ act[r]["update_inventory"] = "completed"
    /\ ExecuteActivity(r, "send_confirmation")
    /\ sent' = [sent EXCEPT ![r] = <<txn_id[r]>>]
    /\ UNCHANGED <<cause, failures, delays, payResult, txn_id, outcome, d_in, d_out>>

\* UpdateInventoryError re-raising instead of returning
UpdateInventoryError_Reraises(r) ==
    /\ pc[r] = "update_inventory"
    /\ act[r]["update_inventory"] = "failed"
    /\ Reraise(r)
    /\ UNCHANGED <<act, attempts, cause, failures, delays, payResult, txn_id, sent, d_in, d_out>>

\* UpdateInventoryError passing on to send_confirmation
UpdateInventoryError_Continues(r) ==
    /\ pc[r] = "update_inventory"
    /\ act[r]["update_inventory"] = "failed"
    /\ ExecuteActivity(r, "send_confirmation")
    /\ sent' = [sent EXCEPT ![r] = <<txn_id[r]>>]
    /\ UNCHANGED <<cause, failures, delays, payResult, txn_id, outcome, d_in, d_out>>

\* 3. except ActivityError as e
UpdateInventoryError(r) ==
    /\ pc[r] = "update_inventory"
    /\ act[r]["update_inventory"] = "failed"
    /\ Return(r, InventoryUpdateFailedString(r))
    /\ UNCHANGED <<act, attempts, cause, failures, delays, payResult, txn_id, sent, d_in, d_out>>

\* 4. send_confirmation returned: the final return
SendConfirmationDone(r) ==
    /\ pc[r] = "send_confirmation"
    /\ act[r]["send_confirmation"] = "completed"
    /\ Return(r, SuccessString(r, txn_id[r]))
    /\ UNCHANGED <<act, attempts, cause, failures, delays, payResult, txn_id, sent, d_in, d_out>>

\* SendConfirmationError passing only on EmailServiceError
SendConfirmationError_RaisesSystemErrors(r) ==
    /\ pc[r] = "send_confirmation"
    /\ act[r]["send_confirmation"] = "failed"
    /\ IF cause[r]["send_confirmation"].type = "EmailServiceError"
       THEN Return(r, SuccessString(r, txn_id[r]))
       ELSE Reraise(r)
    /\ UNCHANGED <<act, attempts, cause, failures, delays, payResult, txn_id, sent, d_in, d_out>>

\* SendConfirmationError re-raising instead of passing
SendConfirmationError_Reraises(r) ==
    /\ pc[r] = "send_confirmation"
    /\ act[r]["send_confirmation"] = "failed"
    /\ Reraise(r)
    /\ UNCHANGED <<act, attempts, cause, failures, delays, payResult, txn_id, sent, d_in, d_out>>

\* 4. except ActivityError as e: pass, then the final return
SendConfirmationError(r) ==
    /\ pc[r] = "send_confirmation"
    /\ act[r]["send_confirmation"] = "failed"
    /\ Return(r, SuccessString(r, txn_id[r]))
    /\ UNCHANGED <<act, attempts, cause, failures, delays, payResult, txn_id, sent, d_in, d_out>>

Next ==
    \/ \E r \in Orders : WorkflowStart(r)
    \/ \E r \in Orders, s \in StepSet : ActivityReturn(r, s)
    \/ \E r \in Orders, s \in StepSet, k \in ErrorKinds : ActivityFail(r, s, k)
    \/ \E r \in Orders, s \in StepSet : RetryActivity(r, s)
    \/ \E r \in Orders : ValidateInventoryDone(r)
    \/ \E r \in Orders : ValidateInventoryError(r)
    \/ \E r \in Orders : ProcessPaymentDone(r)
    \/ \E r \in Orders : ProcessPaymentError(r)
    \/ \E r \in Orders : UpdateInventoryDone(r)
    \/ \E r \in Orders : UpdateInventoryError(r)
    \/ \E r \in Orders : SendConfirmationDone(r)
    \/ \E r \in Orders : SendConfirmationError(r)

Spec == Init /\ [][Next]_vars

\* every attempt ends, every backoff wait ends and a run whose await has
\* ended is resumed
FairSpec == Spec /\ WF_vars(Next)

----------------------------------------------------------------------------
(* The retry decision on its own: every error kind, attempt number and step *)

DecideInputs ==
    [error_kind : ErrorKinds, attempt_number : 1..MaxAttemptNumber, step : StepSet]

DecideInit ==
    /\ RunInit
    /\ d_in \in DecideInputs
    /\ d_out = NoDecision

\* evaluate decide on the current inputs
Evaluate ==
    /\ d_out = NoDecision
    /\ d_out' = decide(d_in.error_kind, d_in.attempt_number, Policy(d_in.step))
    /\ UNCHANGED <<d_in, pc, act, attempts, cause, failures, delays, payResult, txn_id, sent, outcome>>

\* the failure of the attempt that follows a Retry
NextFailure ==
    /\ d_out.decision = "Retry"
    /\ d_in.attempt_number < MaxAttemptNumber
    /\ \E k \in ErrorKinds :
         d_in' = [d_in EXCEPT !.error_kind = k, !.attempt_number = @ + 1]
    /\ d_out' = NoDecision
    /\ UNCHANGED <<pc, act, attempts, cause, failures, delays, payResult, txn_id, sent, outcome>>

DecideNext == Evaluate \/ NextFailure

DecideSpec == DecideInit /\ [][DecideNext]_vars

----------------------------------------------------------------------------
(* Runs of two orders executing concurrently *)

ConcurrentOrders == {"order_1", "order_2"}

\* number of failed attempts the two runs may see between them
MaxFaults == 3

RECURSIVE SumLen(_, _)
SumLen(f, S) ==
    IF S = {} THEN 0
    ELSE LET x == CHOOSE y \in S : TRUE IN Len(f[x[1]][x[2]]) + SumLen(f, S \ {x})

FaultCount == SumLen(failures, (DOMAIN failures) \X StepSet)

ConcurrentInit ==
    /\ pc = [r \in ConcurrentOrders |-> "start"]
    /\ act = [r \in ConcurrentOrders |-> [s \in StepSet |-> "none"]]
    /\ attempts = [r \in ConcurrentOrders |-> [s \in StepSet |-> 0]]
    /\ cause = [r \in ConcurrentOrders |-> [s \in StepSet |-> NoCause]]
    /\ failures = [r \in ConcurrentOrders |-> [s \in StepSet |-> <<>>]]
    /\ delays = [r \in ConcurrentOrders |-> [s \in StepSet |-> <<>>]]
    /\ payResult = [r \in ConcurrentOrders |-> None]
    /\ txn_id = [r \in ConcurrentOrders |-> None]
    /\ sent = [r \in ConcurrentOrders |-> <<>>]
    /\ outcome = [r \in ConcurrentOrders |-> NoOutcome]
    /\ d_in = FirstInput
    /\ d_out = NoDecision

\* a failed attempt, while the runs have failures left to see
BoundedActivityFail(r, s, error_kind) ==
    /\ FaultCount < MaxFaults
    /\ ActivityFail(r, s, error_kind)

ConcurrentNext ==
    \/ \E r \in ConcurrentOrders : WorkflowStart(r)
    \/ \E r \in ConcurrentOrders, s \in StepSet : ActivityReturn(r, s)
    \/ \E r \in ConcurrentOrders, s \in StepSet, k \in ErrorKinds : BoundedActivityFail(r, s, k)
    \/ \E r \in ConcurrentOrders, s \in StepSet : RetryActivity(r, s)
    \/ \E r \in ConcurrentOrders : ValidateInventoryDone(r)
    \/ \E r \in ConcurrentOrders : ValidateInventoryError(r)
    \/ \E r \in ConcurrentOrders : ProcessPaymentDone(r)
    \/ \E r \in ConcurrentOrders : ProcessPaymentError(r)
    \/ \E r \in ConcurrentOrders : UpdateInventoryDone(r)
    \/ \E r \in ConcurrentOrders : UpdateInventoryError(r)
    \/ \E r \in ConcurrentOrders : SendConfirmationDone(r)
    \/ \E r \in ConcurrentOrders : SendConfirmationError(r)

ConcurrentSpec == ConcurrentInit /\ [][ConcurrentNext]_vars

----------------------------------------------------------------------------
(* A run cancelled from outside *)

\* the run is suspended at an await: an attempt of its current step is
\* running or the step is in a backoff wait
Suspended(r) ==
    /\ pc[r] \in StepSet
    /\ act[r][pc[r]] \in {"running", "backoff"}

TimedOut == [kind |-> "timed_out", value |-> None]

CancelledCause == [class |-> "CancelledError", type |-> "CancelledError"]

Cancelled(r) ==
    \/ outcome[r] = TimedOut
    \/ \E s \in StepSet : cause[r][s] = CancelledCause

\* a cancellation request reaches the suspended run: the activity awaited is
\* cancelled, no further attempt of it is made, and the await raises
\* ActivityError with a CancelledError as its cause
CancelRequest(r) ==
    /\ Suspended(r)
    /\ ~Cancelled(r)
    /\ act' = [act EXCEPT ![r][pc[r]] = "failed"]
    /\ cause' = [cause EXCEPT ![r][pc[r]] = CancelledCause]
    /\ UNCHANGED <<pc, attempts, failures, delays, payResult, txn_id, sent, outcome, d_in, d_out>>

\* execution_timeout expires: the run is closed without being resumed, it
\* gives its caller no result and its activity is abandoned
ExecutionTimeout(r) ==
    /\ pc[r] # "done"
    /\ ~Cancelled(r)
    /\ pc' = [pc EXCEPT ![r] = "done"]
    /\ outcome' = [outcome EXCEPT ![r] = TimedOut]
    /\ act' = [act EXCEPT ![r] =
                  [s \in StepSet |-> IF @[s] \in {"running", "backoff"} THEN "abandoned" ELSE @[s]]]
    /\ UNCHANGED <<attempts, cause, failures, delays, payResult, txn_id, sent, d_in, d_out>>

CancelNext ==
    \/ Next
    \/ \E r \in Orders : CancelRequest(r)
    \/ \E r \in Orders : ExecutionTimeout(r)

CancelSpec == Init /\ [][CancelNext]_vars

----------------------------------------------------------------------------
(* process_order of non_temporal_order_processing.py                       *)
(* The same state describes it: pc is the call process_order is waiting    *)
(* in, attempts counts the calls of each service function, failures the    *)
(* exceptions they raised, delays the sleeps between payment attempts.     *)

\* "order_" + str(random.randint(1000, 9999)) of the test harness
NTOrderIds == {"order_1000", "order_1234", "order_9999"}

\* f"Order {order.order_id} completed. Txn: {txn_id}"
NTCompletedString(order_id, txn) ==
    <<"Order ", order_id, " completed. Txn: ">> \o Format(txn)

NTInit ==
    \E o \in NTOrderIds :
        /\ pc = [r \in {o} |-> "start"]
        /\ act = [r \in {o} |-> [s \in StepSet |-> "none"]]
        /\ attempts = [r \in {o} |-> [s \in StepSet |-> 0]]
        /\ cause = [r \in {o} |-> [s \in StepSet |-> NoCause]]
        /\ failures = [r \in {o} |-> [s \in StepSet |-> <<>>]]
        /\ delays = [r \in {o} |-> [s \in StepSet |-> <<>>]]
        /\ payResult = [r \in {o} |-> None]
        /\ txn_id = [r \in {o} |-> None]
        /\ sent = [r \in {o} |-> <<>>]
        /\ outcome = [r \in {o} |-> NoOutcome]
        /\ d_in = FirstInput
        /\ d_out = NoDecision

\* await s(order ...): one more call of s; the call before it, if any, has
\* ended in state ended
NTCall(r, before, ended, s) ==
    /\ pc' = [pc EXCEPT ![r] = s]
    /\ act' = IF before = s
              THEN [act EXCEPT ![r][s] = "running"]
              ELSE [act EXCEPT ![r][before] = ended, ![r][s] = "running"]
    /\ attempts' = [attempts EXCEPT ![r][s] = @ + 1]

\* an exception leaves process_order
NTRaise(r, s, exception) ==
    /\ pc' = [pc EXCEPT ![r] = "done"]
    /\ act' = [act EXCEPT ![r][s] = "failed"]
    /\ failures' = [failures EXCEPT ![r][s] = Append(@, exception)]
    /\ outcome' = [outcome EXCEPT ![r] = Raised(exception)]

\* txn_id = None, then PHASE 1
NTProcessOrder(r) ==
    /\ r \in DOMAIN pc
    /\ pc[r] = "start"
    /\ txn_id' = [txn_id EXCEPT ![r] = None]
    /\ pc' = [pc EXCEPT ![r] = "validate_inventory"]
    /\ act' = [act EXCEPT ![r]["validate_inventory"] = "running"]
    /\ attempts' = [attempts EXCEPT ![r]["validate_inventory"] = @ + 1]
    /\ UNCHANGED <<cause, failures, delays, payResult, sent, outcome, d_in, d_out>>

\* PHASE 1: InventoryUnavailableError is logged and raised again
NTValidateInventoryRaises(r) ==
    /\ r \in DOMAIN pc
    /\ pc[r] = "validate_inventory"
    /\ act[r]["validate_inventory"] = "running"
    /\ NTRaise(r, "validate_inventory", "InventoryUnavailableError")
    /\ UNCHANGED <<attempts, cause, delays, payResult, txn_id, sent, d_in, d_out>>

\* PHASE 1 passed: the first iteration of the payment loop
NTValidateInventoryReturns(r) ==
    /\ r \in DOMAIN pc
    /\ pc[r] = "validate_inventory"
    /\ act[r]["validate_inventory"] = "running"
    /\ NTCall(r, "validate_inventory", "completed", "process_payment")
    /\ UNCHANGED <<cause, failures, delays, payResult, txn_id, sent, outcome, d_in, d_out>>

\* PHASE 2: txn_id = await process_payment(order); break; then PHASE 3
NTProcessPaymentReturns(r) ==
    /\ r \in DOMAIN pc
    /\ pc[r] = "process_payment"
    /\ act[r]["process_payment"] = "running"
    /\ \E n \in TxnSuffixes :
         /\ payResult' = [payResult EXCEPT ![r] = TxnId(r, n)]
         /\ txn_id' = [txn_id EXCEPT ![r] = TxnId(r, n)]
    /\ NTCall(r, "process_payment", "completed", "update_inventory")
    /\ UNCHANGED <<cause, failures, delays, sent, outcome, d_in, d_out>>

\* PaymentDeclinedError falling out of the loop after the last iteration
NTProcessPaymentRaises_FallsThrough(r) ==
    /\ r \in DOMAIN pc
    /\ pc[r] = "process_payment"
    /\ act[r]["process_payment"] = "running"
    /\ LET attempt == attempts[r]["process_payment"] - 1 IN
       /\ failures' = [failures EXCEPT ![r]["process_payment"] = Append(@, "PaymentDeclinedError")]
       /\ delays' = [delays EXCEPT ![r]["process_payment"] = Append(@, 1 * (attempt + 1))]
       /\ IF attempt = 2
          THEN /\ NTCall(r, "process_payment", "failed", "update_inventory")
          ELSE /\ act' = [act EXCEPT ![r]["process_payment"] = "backoff"]
               /\ UNCHANGED <<pc, attempts>>
       /\ UNCHANGED outcome
    /\ UNCHANGED <<cause, payResult, txn_id, sent, d_in, d_out>>

\* PHASE 2: except PaymentDeclinedError: raise on the third attempt, else
\* asyncio.sleep(1 * (attempt + 1))
NTProcessPaymentRaises(r) ==
    /\ r \in DOMAIN pc
    /\ pc[r] = "process_payment"
    /\ act[r]["process_payment"] = "running"
    /\ LET attempt == attempts[r]["process_payment"] - 1 IN
       IF attempt = 2
       THEN /\ NTRaise(r, "process_payment", "PaymentDeclinedError")
            /\ UNCHANGED <<attempts, delays>>
       ELSE /\ failures' = [failures EXCEPT ![r]["process_payment"] = Append(@, "PaymentDeclinedError")]
            /\ act' = [act EXCEPT ![r]["process_payment"] = "backoff"]
            /\ delays' = [delays EXCEPT ![r]["process_payment"] = Append(@, 1 * (attempt + 1))]
            /\ UNCHANGED <<pc, attempts, outcome>>
    /\ UNCHANGED <<cause, payResult, txn_id, sent, d_in, d_out>>

\* PHASE 2: the sleep is over, the next iteration of the loop
NTProcessPaymentRetry(r) ==
    /\ r \in DOMAIN pc
    /\ pc[r] = "process_payment"
    /\ act[r]["process_payment"] = "backoff"
    /\ NTCall(r, "process_payment", "backoff", "process_payment")
    /\ UNCHANGED <<cause, failures, delays, payResult, txn_id, sent, outcome, d_in, d_out>>

\* PHASE 3: update_inventory returns True; then PHASE 4
NTUpdateInventoryReturns(r) ==
    /\ r \in DOMAIN pc
    /\ pc[r] = "update_inventory"
    /\ act[r]["update_inventory"] = "running"
    /\ NTCall(r, "update_inventory", "completed", "send_confirmation")
    /\ sent' = [sent EXCEPT ![r] = Append(@, txn_id[r])]
    /\ UNCHANGED <<cause, failures, delays, payResult, txn_id, outcome, d_in, d_out>>

\* PHASE 4: send_confirmation returns; the final return
NTSendConfirmationReturns(r) ==
    /\ r \in DOMAIN pc
    /\ pc[r] = "send_confirmation"
    /\ act[r]["send_confirmation"] = "running"
    /\ act' = [act EXCEPT ![r]["send_confirmation"] = "completed"]
    /\ pc' = [pc EXCEPT ![r] = "done"]
    /\ outcome' = [outcome EXCEPT ![r] = Returned(NTCompletedString(r, txn_id[r]))]
    /\ UNCHANGED <<attempts, cause, failures, delays, payResult, txn_id, sent, d_in, d_out>>

\* PHASE 4: EmailServiceError is logged; the final return
NTSendConfirmationRaises(r) ==
    /\ r \in DOMAIN pc
    /\ pc[r] = "send_confirmation"
    /\ act[r]["send_confirmation"] = "running"
    /\ act' = [act EXCEPT ![r]["send_confirmation"] = "failed"]
    /\ failures' = [failures EXCEPT ![r]["send_confirmation"] = Append(@, "EmailServiceError")]
    /\ pc' = [pc EXCEPT ![r] = "done"]
    /\ outcome' = [outcome EXCEPT ![r] = Returned(NTCompletedString(r, txn_id[r]))]
    /\ UNCHANGED <<attempts, cause, delays, payResult, txn_id, sent, d_in, d_out>>

NTNext ==
    \/ \E r \in NTOrderIds : NTProcessOrder(r)
    \/ \E r \in NTOrderIds : NTValidateInventoryRaises(r)
    \/ \E r \in NTOrderIds : NTValidateInventoryReturns(r)
    \/ \E r \in NTOrderIds : NTProcessPaymentReturns(r)
    \/ \E r \in NTOrderIds : NTProcessPaymentRaises(r)
    \/ \E r \in NTOrderIds : NTProcessPaymentRetry(r)
    \/ \E r \in NTOrderIds : NTUpdateInventoryReturns(r)
    \/ \E r \in NTOrderIds : NTSendConfirmationReturns(r)
    \/ \E r \in NTOrderIds : NTSendConfirmationRaises(r)

NTSpec == NTInit /\ [][NTNext]_vars

----------------------------------------------------------------------------
(* Properties *)

Done(r) == pc[r] = "done"

\* step s of run r ended in an ActivityError
Failed(r, s) == act[r][s] = "failed"

\* every attempt of step s made in run r failed with error_kind
AllAttemptsFailedWith(r, s, error_kind) ==
    /\ attempts[r][s] > 0
    /\ Len(failures[r][s]) = attempts[r][s]
    /\ \A i \in 1..Len(failures[r][s]) : failures[r][s][i] = error_kind

NeverInvoked(r, S) == \A s \in S : attempts[r][s] = 0 /\ act[r][s] = "none"

\* C1: a run whose every validate_inventory attempt failed with
\* InventoryUnavailableError returns "Order {order_id} failed: Inventory
\* unavailable." and has invoked none of the three later steps.
C1_InventoryShortCircuit ==
    \A r \in Orders :
        (Done(r) /\ Failed(r, "validate_inventory")
                 /\ AllAttemptsFailedWith(r, "validate_inventory", "InventoryUnavailableError"))
        => /\ outcome[r] = Returned(InventoryUnavailableString(r))
           /\ NeverInvoked(r, After("validate_inventory"))

\* C2: a run whose validate_inventory succeeded and whose process_payment
\* stopped with PaymentDeclinedError returns "Order {order_id} failed:
\* Payment declined.", holds no transaction id and has invoked neither
\* update_inventory nor send_confirmation.
C2_PaymentDeclined ==
    \A r \in Orders :
        (Done(r) /\ act[r]["validate_inventory"] = "completed"
                 /\ Failed(r, "process_payment")
                 /\ cause[r]["process_payment"].type = "PaymentDeclinedError")
        => /\ outcome[r] = Returned(PaymentDeclinedString(r))
           /\ payResult[r] = None
           /\ txn_id[r] = None
           /\ NeverInvoked(r, After("process_payment"))

\* C3: a run whose validate_inventory and process_payment succeeded and whose
\* update_inventory stopped with a failure returns "Order {order_id} failed:
\* Inventory update failed. Payment possibly refunded.", has not invoked
\* send_confirmation, and still holds the captured payment.
C3_InventoryUpdateFailure ==
    \A r \in Orders :
        (Done(r) /\ Failed(r, "update_inventory"))
        => /\ act[r]["validate_inventory"] = "completed"
           /\ act[r]["process_payment"] = "completed"
           /\ outcome[r] = Returned(InventoryUpdateFailedString(r))
           /\ NeverInvoked(r, After("update_inventory"))
           /\ payResult[r] # None
           /\ txn_id[r] = payResult[r]

C3_Witness ==
    \E r \in Orders :
        /\ Done(r)
        /\ Failed(r, "update_inventory")
        /\ attempts[r]["update_inventory"] = 3
        /\ outcome[r].kind = "returned"

\* C4: a run whose first three steps succeeded and whose send_confirmation
\* failed with EmailServiceError on all its attempts returns the success
\* string with the transaction id process_payment returned, the very value
\* a run whose send_confirmation succeeded returns.
C4_EmailFailureIsSuccess ==
    \A r \in Orders :
        (Done(r) /\ act[r]["send_confirmation"] \in {"completed", "failed"})
        => /\ payResult[r] # None
           /\ outcome[r] = Returned(SuccessString(r, payResult[r]))

C4_Witness ==
    \E r \in Orders :
        /\ Done(r)
        /\ Failed(r, "send_confirmation")
        /\ AllAttemptsFailedWith(r, "send_confirmation", "EmailServiceError")
        /\ outcome[r] = Returned(SuccessString(r, TxnId(r, 1234)))

\* C5: a run whose validate_inventory stopped with an error other than
\* InventoryUnavailableError, or whose process_payment stopped with an error
\* other than PaymentDeclinedError, ends with a raised error, returns no
\* string and has invoked no later step.
C5_SystemErrorsPropagate ==
    \A r \in Orders :
        /\ (Done(r) /\ Failed(r, "validate_inventory")
                    /\ cause[r]["validate_inventory"].type # "InventoryUnavailableError")
           => /\ outcome[r].kind = "raised"
              /\ NeverInvoked(r, After("validate_inventory"))
        /\ (Done(r) /\ Failed(r, "process_payment")
                    /\ cause[r]["process_payment"].type # "PaymentDeclinedError")
           => /\ outcome[r].kind = "raised"
              /\ NeverInvoked(r, After("process_payment"))

C5_Witness ==
    \E r \in Orders :
        /\ Done(r)
        /\ Failed(r, "process_payment")
        /\ cause[r]["process_payment"].type = "TimeoutError"
        /\ attempts[r]["process_payment"] = 5
        /\ outcome[r] = Raised("ActivityError")

\* C6: in every state the number of attempts started of each step is at most
\* the maximum_attempts of the step's retry policy: 3, 5, 3 and 2.
C6_RetryBound ==
    \A r \in Orders :
        /\ attempts[r]["validate_inventory"] <= 3
        /\ attempts[r]["process_payment"] <= 5
        /\ attempts[r]["update_inventory"] <= 3
        /\ attempts[r]["send_confirmation"] <= 2
        /\ \A s \in StepSet : attempts[r][s] <= Policy(s).maximum_attempts

C6_Witness ==
    \E r \in Orders :
        /\ Failed(r, "process_payment")
        /\ attempts[r]["process_payment"] = 5
        /\ Len(failures[r]["process_payment"]) = 5
        /\ attempts[r]["validate_inventory"] = 3

InProgress(r) == {s \in StepSet : act[r][s] \in {"running", "backoff"}}

HaltingSteps == {"validate_inventory", "process_payment", "update_inventory"}

\* a step has been attempted only if every step before it has succeeded,
\* and at most one step is in progress
C7_Order ==
    \A r \in Orders :
        /\ \A s \in StepSet :
             attempts[r][s] > 0 => \A p \in Before(s) : act[r][p] = "completed"
        /\ Cardinality(InProgress(r)) <= 1

\* once one of the first three steps has failed no attempt is started
C7_Halt ==
    \A r \in Orders :
        (\E s \in HaltingSteps : Failed(r, s))
        => /\ attempts'[r] = attempts[r]
           /\ InProgress(r) = {}
           /\ \A s \in StepSet : act'[r][s] = act[r][s]

\* C7: steps are invoked in the order validate_inventory, process_payment,
\* update_inventory, send_confirmation, each first attempted only after the
\* one before it succeeded, never two in progress at once, and after a
\* failure of one of the first three no step is invoked.
C7_FixedOrderAndHalt == []C7_Order /\ [][C7_Halt]_vars

C7_Witness ==
    \E r \in Orders :
        /\ Done(r)
        /\ Failed(r, "update_inventory")
        /\ attempts[r]["validate_inventory"] = 2
        /\ attempts[r]["process_payment"] = 2

\* number of occurrences of the string sub in the string str
Count(sub, str) ==
    Cardinality({i \in 1..(Len(str) - Len(sub) + 1) : SubSeq(str, i, i + Len(sub) - 1) = sub})

IsSuccessString(str) ==
    Len(str) >= 3 /\ str[3] = " completed successfully. Transaction: "

\* C8: every send_confirmation attempt receives the transaction id returned
\* by the successful process_payment attempt of the run, never None, and a
\* returned success string contains that transaction id exactly once.
C8_TransactionIdThreading ==
    \A r \in Orders :
        /\ \A i \in 1..Len(sent[r]) : sent[r][i] # None /\ sent[r][i] = payResult[r]
        /\ attempts[r]["send_confirmation"] = Len(sent[r])
        /\ (outcome[r].kind = "returned" /\ IsSuccessString(outcome[r].value))
           => /\ payResult[r] # None
              /\ Count(payResult[r], outcome[r].value) = 1
              /\ outcome[r].value = <<"Order ", r, " completed successfully. Transaction: ">> \o payResult[r]

C8_Witness ==
    \E r \in Orders :
        /\ Len(sent[r]) = 2
        /\ sent[r][2] = TxnId(r, 9999)
        /\ outcome[r].kind = "returned"
        /\ IsSuccessString(outcome[r].value)

\* the result of decide is Stop exactly when the attempt number has reached
\* maximum_attempts or the error kind is non-retryable, and Retry otherwise
C9_Decision ==
    d_out # NoDecision =>
        LET policy == Policy(d_in.step)
            stop == \/ d_in.attempt_number >= policy.maximum_attempts
                    \/ d_in.error_kind \in policy.non_retryable_error_types
        IN  /\ d_out.decision \in {"Stop", "Retry"}
            /\ d_out.decision = "Stop" <=> stop
            /\ d_out.decision = "Retry" <=> ~stop

\* evaluating the decision changes neither its inputs nor any run
C9_Pure ==
    (d_out = NoDecision /\ d_out' # NoDecision) => UNCHANGED <<d_in, runvars>>

IsPrefix(a, b) == Len(a) <= Len(b) /\ a = SubSeq(b, 1, Len(a))

\* C10: the waits computed before attempts 2, 3, ... of a step are
\* non-decreasing and none exceeds the step's maximum_interval; for
\* process_payment they are 1, 2, 4, 5 seconds.
C10_BackoffMonotone ==
    \A r \in Orders :
        /\ \A s \in StepSet :
             /\ \A i \in 1..Len(delays[r][s]) : delays[r][s][i] <= Policy(s).maximum_interval
             /\ \A i \in 1..(Len(delays[r][s]) - 1) : delays[r][s][i] <= delays[r][s][i + 1]
             /\ Len(delays[r][s]) = IF attempts[r][s] = 0 THEN 0
                                    ELSE IF act[r][s] = "backoff" THEN attempts[r][s]
                                    ELSE attempts[r][s] - 1
        /\ IsPrefix(delays[r]["process_payment"], <<1, 2, 4, 5>>)

C10_Witness ==
    \E r \in Orders : delays[r]["process_payment"] = <<1, 2, 4, 5>>

\* everything a run owns
RunState(r) ==
    <<pc[r], act[r], attempts[r], cause[r], failures[r], delays[r],
      payResult[r], txn_id[r], sent[r], outcome[r]>>

\* the string str with order id r replaced by order id q
Rename(str, r, q) == [i \in 1..Len(str) |-> IF str[i] = r THEN q ELSE str[i]]

\* a run holds and reports only its own order id and transaction id
C11_OwnData ==
    \A r \in ConcurrentOrders :
        /\ payResult[r] # None => payResult[r][2] = r
        /\ txn_id[r] \in {None, payResult[r]}
        /\ \A i \in 1..Len(sent[r]) : sent[r][i] = payResult[r]
        /\ \A q \in ConcurrentOrders \ {r} :
             /\ Count(<<q>>, outcome[r].value) = 0
             /\ payResult[q] # None => Count(payResult[q], outcome[r].value) = 0
             /\ txn_id[r] # None => txn_id[r] # txn_id[q]

\* two finished runs that saw the same step outcomes have the same attempt
\* counters and, up to the order id, the same result
C11_SameOutcomesSameResult ==
    \A r, q \in ConcurrentOrders :
        (/\ Done(r) /\ Done(q)
         /\ failures[r] = failures[q]
         /\ act[r] = act[q]
         /\ Rename(payResult[r], r, q) = payResult[q])
        => /\ attempts[r] = attempts[q]
           /\ outcome[q] = [outcome[r] EXCEPT !.value = Rename(@, r, q)]

\* a step of one run leaves every other run as it was
C11_StepOfOneRun ==
    \E r \in ConcurrentOrders :
        \A q \in ConcurrentOrders \ {r} : RunState(q)' = RunState(q)

\* C11: runs of distinct orders executing concurrently do not interfere: a
\* step of one run changes no other run, a run's attempt counters and result
\* are determined by its own order and step outcomes, and its transaction id
\* and result contain no other run's order id or transaction id.
C11_RunIsolation ==
    /\ [](C11_OwnData /\ C11_SameOutcomesSameResult)
    /\ [][C11_StepOfOneRun]_vars

C11_Witness ==
    /\ outcome["order_1"] = Returned(SuccessString("order_1", TxnId("order_1", 1234)))
    /\ outcome["order_2"] = Returned(InventoryUpdateFailedString("order_2"))
    /\ payResult["order_2"] = TxnId("order_2", 1234)
    /\ attempts["order_2"]["update_inventory"] = 3
    /\ attempts["order_1"]["update_inventory"] = 1

\* once a run has been cancelled no attempt is started and no string is returned
C12_AfterCancel ==
    \A r \in Orders :
        Cancelled(r) => /\ attempts'[r] = attempts[r]
                        /\ outcome'[r].kind # "returned"

\* C12: a run cancelled from outside while suspended, in any of the four
\* steps, starts no step attempt after the cancellation and returns no
\* result string.
C12_CooperativeCancellation == [][C12_AfterCancel]_vars

C14_ConfirmationSystemErrorRaised ==
    \A r \in Orders :
        (Done(r) /\ Failed(r, "send_confirmation")
                 /\ cause[r]["send_confirmation"].type # "EmailServiceError")
        => /\ outcome[r].kind = "raised"
           /\ ~IsSuccessString(outcome[r].value)

\* C14 (amended): a run whose send_confirmation stopped with an error other
\* than EmailServiceError raises nothing: it returns the success string with
\* the transaction id of the payment, as after an EmailServiceError.
C14_ConfirmationSystemErrorSwallowed ==
    \A r \in Orders :
        (Done(r) /\ Failed(r, "send_confirmation")
                 /\ cause[r]["send_confirmation"].type # "EmailServiceError")
        => /\ outcome[r].kind = "returned"
           /\ outcome[r].value = SuccessString(r, payResult[r])
           /\ IsSuccessString(outcome[r].value)

C14_Witness ==
    \E r \in Orders :
        /\ Done(r)
        /\ Failed(r, "send_confirmation")
        /\ failures[r]["send_confirmation"] = <<"TimeoutError", "TimeoutError">>
        /\ cause[r]["send_confirmation"].type = "TimeoutError"
        /\ outcome[r].kind = "returned"

\* the decimal numerals of four digits
FourDigitNumerals == {ToString(n) : n \in 1000..9999}

\* C15: every transaction id a successful process_payment attempt produced
\* is txn_<order_id>_<n>, with the order_id of the order of the attempt and
\* n a number of exactly four decimal digits.
C15_TransactionIdFormat ==
    \A r \in Orders :
        payResult[r] # None
        => /\ Len(payResult[r]) = 4
           /\ payResult[r][1] = "txn_"
           /\ payResult[r][2] = r
           /\ payResult[r][3] = "_"
           /\ payResult[r][4] \in FourDigitNumerals
           /\ Len(payResult[r][4]) = 4

C15_Witness ==
    \E r \in Orders :
        /\ act[r]["process_payment"] = "completed"
        /\ attempts[r]["process_payment"] = 2
        /\ payResult[r] = <<"txn_", r, "_", "9999">>

\* the kinds the claim names as never re-attempted
NeverRetried(s) ==
    CASE s = "validate_inventory" -> {"InventoryUnavailableError"}
      [] s = "process_payment"    -> {"PaymentDeclinedError"}
      [] s = "update_inventory"   -> {}
      [] s = "send_confirmation"  -> {"EmailServiceError"}

C17_CapturedIffCompleted ==
    \A r \in Orders :
        /\ payResult[r] # None <=> act[r]["process_payment"] = "completed"
        /\ payResult[r] # None
           => Len(failures[r]["process_payment"]) = attempts[r]["process_payment"] - 1

\* once captured, no attempt of process_payment starts or succeeds
C17_NoSecondCapture ==
    \A r \in Orders :
        payResult[r] # None
        => /\ payResult'[r] = payResult[r]
           /\ attempts'[r]["process_payment"] = attempts[r]["process_payment"]
           /\ act'[r]["process_payment"] = "completed"

\* C17: in every run at most one process_payment attempt succeeds, and after
\* it has succeeded process_payment is not invoked again, also while
\* update_inventory or send_confirmation is retried.
C17_PaymentCapturedOnce == []C17_CapturedIffCompleted /\ [][C17_NoSecondCapture]_vars

C17_Witness ==
    \E r \in Orders :
        /\ payResult[r] # None
        /\ attempts[r]["process_payment"] = 3
        /\ attempts[r]["update_inventory"] = 3
        /\ attempts[r]["send_confirmation"] = 2

FailureLiterals ==
    {" failed: Inventory unavailable.",
     " failed: Payment declined.",
     " failed: Inventory update failed. Payment possibly refunded."}

\* str is one of the four result templates filled in for order id r
IsResultTemplate(str, r) ==
    /\ Len(str) >= 3
    /\ str[1] = "Order "
    /\ str[2] = r
    /\ \/ str[3] \in FailureLiterals /\ Len(str) = 3
       \/ /\ str[3] = " completed successfully. Transaction: "
          /\ Len(str) > 3

CriticalSteps == {"validate_inventory", "process_payment", "update_inventory"}

\* C18: a run returns the success string only if validate_inventory,
\* process_payment and update_inventory each had a successful attempt in it,
\* and every string a run returns is one of the four templates filled in
\* with the run's own order_id.
C18_SuccessImpliesCriticalSteps ==
    \A r \in Orders :
        outcome[r].kind = "returned"
        => /\ IsResultTemplate(outcome[r].value, r)
           /\ IsSuccessString(outcome[r].value)
              => /\ \A s \in CriticalSteps :
                      /\ act[r][s] = "completed"
                      /\ attempts[r][s] = Len(failures[r][s]) + 1
                 /\ SubSeq(outcome[r].value, 4, Len(outcome[r].value)) = payResult[r]

C18_Witness ==
    \E r \in Orders :
        /\ outcome[r].kind = "returned"
        /\ IsSuccessString(outcome[r].value)
        /\ act[r]["send_confirmation"] = "completed"
        /\ attempts[r]["validate_inventory"] = 3
        /\ attempts[r]["process_payment"] = 5

\* a run has an outcome exactly when it is over, and the outcome is a
\* returned string or a raised error
C19_OneOutcome ==
    \A r \in Orders :
        /\ Done(r) <=> outcome[r] # NoOutcome
        /\ Done(r) => /\ outcome[r].kind \in {"returned", "raised"}
                      /\ outcome[r].value # None
                      /\ InProgress(r) = {}

\* over is over: nothing of a finished run changes
C19_Final ==
    \A r \in Orders : Done(r) => RunState(r)' = RunState(r)

\* C19: with every attempt eventually ending and the run eventually resumed,
\* every run reaches a terminal state whatever the failures, has exactly one
\* outcome there, a returned string or a raised error, and no step is
\* attempted afterwards.
C19_Termination ==
    /\ \A r \in Orders : <>Done(r)
    /\ []C19_OneOutcome
    /\ [][C19_Final]_vars

C19_Witness ==
    \E r \in Orders :
        /\ Done(r)
        /\ outcome[r] = Raised("ActivityError")
        /\ failures[r]["validate_inventory"] = <<"TimeoutError", "TimeoutError", "TimeoutError">>

\* C20: in process_order, validate_inventory is invoked exactly once and its
\* InventoryUnavailableError is raised again with no later step invoked;
\* process_payment is invoked at most 3 times, with sleeps of 1s then 2s
\* between the attempts; the third PaymentDeclinedError is raised to the
\* caller; update_inventory is reached only with txn_id set to the id the
\* successful process_payment call returned.
C20_NonTemporalRetryLoop ==
    \A r \in DOMAIN pc :
        /\ attempts[r]["validate_inventory"] <= 1
        /\ pc[r] # "start" => attempts[r]["validate_inventory"] = 1
        /\ Failed(r, "validate_inventory")
           => /\ outcome[r] = Raised("InventoryUnavailableError")
              /\ NeverInvoked(r, After("validate_inventory"))
        /\ attempts[r]["process_payment"] <= 3
        /\ IsPrefix(delays[r]["process_payment"], <<1, 2>>)
        /\ Len(delays[r]["process_payment"]) =
              IF attempts[r]["process_payment"] = 0 THEN 0
              ELSE IF act[r]["process_payment"] = "backoff"
                   THEN attempts[r]["process_payment"]
                   ELSE attempts[r]["process_payment"] - 1
        /\ Len(failures[r]["process_payment"]) = 3
           => /\ outcome[r] = Raised("PaymentDeclinedError")
              /\ Done(r)
              /\ NeverInvoked(r, After("process_payment"))
        /\ (Len(failures[r]["process_payment"]) < 3 /\ outcome[r].kind = "raised")
           => Failed(r, "validate_inventory")
        /\ attempts[r]["update_inventory"] > 0
           => /\ txn_id[r] # None
              /\ txn_id[r] = payResult[r]
              /\ act[r]["process_payment"] = "completed"
              /\ attempts[r]["update_inventory"] = 1

C20_Witness ==
    \E r \in DOMAIN pc :
        /\ Done(r)
        /\ failures[r]["process_payment"] = <<"PaymentDeclinedError", "PaymentDeclinedError">>
        /\ delays[r]["process_payment"] = <<1, 2>>
        /\ attempts[r]["process_payment"] = 3
        /\ act[r]["update_inventory"] = "completed"
        /\ txn_id[r] = TxnId(r, 1234)
        /\ outcome[r] = Returned(NTCompletedString(r, TxnId(r, 1234)))

====
